---- MODULE Spec2Model ----
(***************************************************************************)
(* Model of twic_dl.py: the sequential downloader of numbered archives     *)
(* (probe -> fetch -> extract -> accumulate -> merge).                     *)
(*                                                                         *)
(* Three specifications share the module:                                  *)
(*   Spec          the run of main(): one step per pass of the loop body,  *)
(*                 then the code after the loop;                           *)
(*   FairSpec      the same steps under weak fairness (the program is      *)
(*                 sequential and every request has a timeout), for runs   *)
(*                 into an empty output directory;                         *)
(*   SpecDownload  one call of download(), statement by statement, which   *)
(*                 the process may be killed in at any point.              *)
(***************************************************************************)
EXTENDS Integers, Sequences, FiniteSets, TLC

\* ------------------------------------------------------------------ bounds
\* The server may hold archives for the indices 1..MaxIdx and holds nothing
\* for any index past MaxIdx.
MaxIdx == 3
\* --start is drawn from 1..MaxStart.
MaxStart == 1
\* --max-misses is drawn from 1..MaxMisses.
MaxMisses == 2
\* Only the indices 1..MaxLocal may have an archive on disk before the run.
MaxLocal == 2

\* argparse default of --end
None == 0

\* ------------------------------------------------------- bytes and names
\* A file name is a sequence of one-character strings; a file body is a
\* sequence of byte values.
NL == 10

lower_char(c) ==
    CASE c = "A" -> "a" [] c = "B" -> "b" [] c = "P" -> "p"
      [] c = "G" -> "g" [] c = "N" -> "n" [] OTHER -> c

\* str.lower()
lower(s) == [i \in 1..Len(s) |-> lower_char(s[i])]

\* Code points of the characters that occur in lower-cased names.
ord(c) ==
    CASE c = "." -> 46 [] c = "/" -> 47 [] c = "a" -> 97 [] c = "b" -> 98
      [] c = "g" -> 103 [] c = "n" -> 110 [] c = "p" -> 112 [] c = "t" -> 116
      [] c = "x" -> 120 [] OTHER -> 0

\* str.endswith()
endswith(s, suf) ==
    /\ Len(s) >= Len(suf)
    /\ \A i \in 1..Len(suf) : s[Len(s) - Len(suf) + i] = suf[i]

RECURSIVE LastSlash(_, _)
LastSlash(s, i) ==
    IF i = 0 THEN 0 ELSE IF s[i] = "/" THEN i ELSE LastSlash(s, i - 1)

\* Path(name).name : the part after the last separator
basename(s) == SubSeq(s, LastSlash(s, Len(s)) + 1, Len(s))

\* Python's < on two str values (lexicographic by code point)
RECURSIVE str_lt(_, _)
str_lt(a, b) ==
    IF b = <<>> THEN FALSE
    ELSE IF a = <<>> THEN TRUE
    ELSE IF ord(Head(a)) # ord(Head(b)) THEN ord(Head(a)) < ord(Head(b))
    ELSE str_lt(Tail(a), Tail(b))

\* ------------------------------------------------------------------ files
NoFile == [exists |-> FALSE, data |-> <<>>]
FileOf(bytes) == [exists |-> TRUE, data |-> bytes]

\* ------------------------------------------------- the remote collection
\* The entries of the archive the server holds for index k.
RemoteEntries(k) ==
    CASE k = 1 -> << [name |-> <<"a", ".", "p", "g", "n">>, data |-> <<1>>],
                     [name |-> <<"t", ".", "t", "x", "t">>, data |-> <<9>>] >>
      [] k = 2 -> << [name |-> <<"g", "/", "A", ".", "P", "G", "N">>, data |-> <<2>>] >>
      [] k = 3 -> << [name |-> <<"b", ".", "p", "g", "n">>, data |-> <<3>>],
                     [name |-> <<"x", "/", "a", ".", "p", "g", "n">>, data |-> <<4>>] >>
      [] OTHER -> << [name |-> <<"b", ".", "p", "g", "n">>, data |-> <<5, k>>] >>

\* The bytes of that archive, as the server sends them: two chunks with an
\* empty chunk between them.
ArchiveChunks(k) == << <<80, k>>, <<>>, <<75>> >>
ArchiveBytes(k) == <<80, k, 75>>
\* A body that is not a zip container.
CorruptChunks == << <<0>> >>
CorruptBytes == <<0>>

\* All responses a GET may get for index k: the request raises, a non-200
\* status, or a 200 whose body is the archive or not a zip, and whose stream
\* may raise before chunk e is delivered, for e in errs (0: it does not).
GetResponses(k, errs) ==
    { [raised |-> TRUE, status |-> 0, chunks |-> <<>>, errAt |-> 0] }
    \cup { [raised |-> FALSE, status |-> s, chunks |-> <<>>, errAt |-> 0] : s \in {404, 500} }
    \cup { [raised |-> FALSE, status |-> 200, chunks |-> ArchiveChunks(k), errAt |-> e] :
             e \in errs }
    \cup { [raised |-> FALSE, status |-> 200, chunks |-> CorruptChunks, errAt |-> 0] }

\* In a run of main() the stream of an archive completes or raises before
\* its last chunk; a single download() is followed for every point of failure.
LoopErrs(k) == {0, Len(ArchiveChunks(k))}
AllErrs(k) == 0..Len(ArchiveChunks(k))

\* All responses a HEAD may get.
HeadResponses ==
    { [raised |-> TRUE, status |-> 0] }
    \cup { [raised |-> FALSE, status |-> s] : s \in {200, 404, 500} }

\* A resource that is gone answers 404 to every request.
GoneGet == { [raised |-> FALSE, status |-> 404, chunks |-> <<>>, errAt |-> 0] }
GoneHead == { [raised |-> FALSE, status |-> 404] }

\* ------------------------------------------------------------------ paths
\* The indices past MaxIdx are folded onto two representatives, MaxIdx + 1
\* and MaxIdx + 2: the server holds nothing for them and out/zips has no file
\* for them, so an iteration for one of them differs from an iteration for
\* another in the number n alone.
Indices == 1..(MaxIdx + 2)
Fold(k) == IF k > MaxIdx + 2 THEN MaxIdx + 1 ELSE k

\* A path under out/zips is <<index, isPart>>.
ZipPaths == Indices \X BOOLEAN

\* dest = out_zip / f"twic{n}g.zip"
ZipPath(k) == <<k, FALSE>>

\* tmp = dest.with_suffix(dest.suffix + ".part")
tmp_direct(dest) == dest
tmp_of(dest) == <<dest[1], TRUE>>

\* ---------------------------------------------------------------- head_ok
head_ok(r) ==
    IF r.raised THEN <<FALSE, -1>> ELSE <<r.status = 200, r.status>>

\* --------------------------------------------------------------- download
\* The frame of one call of download(): its position, the response it reads,
\* the number of chunks consumed, whether f is open, the files, and the
\* value it returned.  dest0 is the destination as the call found it.
DlIdle ==
    [pc |-> "idle", resp |-> [raised |-> TRUE, status |-> 0, chunks |-> <<>>, errAt |-> 0],
     dest |-> ZipPath(1), i |-> 0, open |-> FALSE, fs |-> [p \in ZipPaths |-> NoFile],
     dest0 |-> NoFile, ok |-> FALSE, code |-> 0]

DlStart(resp, dest, fs) ==
    [pc |-> "get", resp |-> resp, dest |-> dest, i |-> 0, open |-> FALSE, fs |-> fs,
     dest0 |-> fs[dest], ok |-> FALSE, code |-> 0]

DlReturn(d, ok, code) == [d EXCEPT !.pc = "ret", !.ok = ok, !.code = code, !.open = FALSE]

\* tmp.replace(dest)
replace(fs, src, dst) ==
    LET f == fs[src] IN [[fs EXCEPT ![src] = NoFile] EXCEPT ![dst] = f]

\* One statement of download().
DlStep(d) ==
    LET tmp == tmp_of(d.dest) IN
    CASE d.pc = "get" ->
           IF d.resp.raised THEN DlReturn(d, FALSE, -1) ELSE [d EXCEPT !.pc = "status"]
      [] d.pc = "status" ->
           IF d.resp.status # 200 THEN DlReturn(d, FALSE, d.resp.status)
           ELSE [d EXCEPT !.pc = "open"]
      [] d.pc = "open" ->
           [d EXCEPT !.pc = "iter", !.open = TRUE, !.fs[tmp] = FileOf(<<>>)]
      [] d.pc = "iter" ->
           IF d.i = Len(d.resp.chunks) THEN [d EXCEPT !.pc = "replace", !.open = FALSE]
           ELSE IF d.resp.errAt = d.i + 1 THEN DlReturn(d, FALSE, -1)
           ELSE LET chunk == d.resp.chunks[d.i + 1] IN
                IF chunk # <<>>
                THEN [d EXCEPT !.i = @ + 1, !.fs[tmp] = FileOf(@.data \o chunk)]
                ELSE [d EXCEPT !.i = @ + 1]
      [] d.pc = "replace" ->
           DlReturn([d EXCEPT !.fs = replace(@, tmp, d.dest)], TRUE, d.resp.status)
      [] OTHER -> d

\* download(), from frame d to its return.  (The next frame is bound as a
\* value before the remaining statements are applied to it.)
RECURSIVE DlRun(_)
DlRun(d) ==
    IF d.pc = "ret" THEN d
    ELSE CHOOSE r \in { DlRun(x) : x \in {DlStep(d)} } : TRUE

\* download(session, url, dest, timeout), run to its return
download(resp, dest, fs) ==
    CHOOSE r \in { DlRun(x) : x \in {DlStart(resp, dest, fs)} } : TRUE

\* ------------------------------------------------------------ extract_pgn
\* zipfile.ZipFile(zip_path): the entries of the container, or BadZipFile.
IsZip(f) == \E k \in 1..MaxIdx : f.data = ArchiveBytes(k)
namelist(f) == RemoteEntries(CHOOSE k \in 1..MaxIdx : f.data = ArchiveBytes(k))

\* The base names an extraction can write, and the extraction directory.
BaseNames ==
    UNION { { basename(RemoteEntries(k)[j].name) : j \in 1..Len(RemoteEntries(k)) } :
            k \in 1..MaxIdx }
EmptyDir == [b \in BaseNames |-> NoFile]

PgnSuffix == <<".", "p", "g", "n">>

\* The loop over z.namelist(): entries from position j on, given the list
\* and the directory so far.
RECURSIVE ExtractFrom(_, _, _, _)
ExtractFrom(entries, j, extracted, dir) ==
    IF j > Len(entries) THEN [extracted |-> extracted, dir |-> dir]
    ELSE LET e == entries[j] IN
         IF endswith(lower(e.name), PgnSuffix)
         THEN LET target == basename(e.name) IN
              ExtractFrom(entries, j + 1, Append(extracted, target),
                          [dir EXCEPT ![target] = FileOf(e.data)])
         ELSE ExtractFrom(entries, j + 1, extracted, dir)

\* extract_pgn(zip_path, out_dir): bad = BadZipFile was raised
extract_pgn(f, dir) ==
    IF IsZip(f)
    THEN [bad |-> FALSE] @@ ExtractFrom(namelist(f), 1, <<>>, dir)
    ELSE [bad |-> TRUE, extracted |-> <<>>, dir |-> dir]

\* ------------------------------------------------------------------ merge
\* sorted(..., key=lambda p: p.name.lower()) : a stable insertion of each
\* element after the elements whose key is not greater.
RECURSIVE InsertByKey(_, _)
InsertByKey(x, s) ==
    IF s = <<>> THEN <<x>>
    ELSE IF str_lt(lower(x), lower(Head(s))) THEN <<x>> \o s
    ELSE <<Head(s)>> \o InsertByKey(x, Tail(s))

RECURSIVE sorted(_)
sorted(s) ==
    IF s = <<>> THEN <<>>
    ELSE InsertByKey(s[Len(s)], sorted(SubSeq(s, 1, Len(s) - 1)))

Range(s) == { s[i] : i \in 1..Len(s) }

\* The orders in which iterating over set(extracted_all) may yield its
\* elements: the order of a Python set is not defined by its contents.
SetOrders(S) ==
    { s \in [1..Cardinality(S) -> S] : \A i, j \in 1..Cardinality(S) : s[i] = s[j] => i = j }

\* The bytes written to the merge file for the list of paths lst.
RECURSIVE MergeBytes(_, _)
MergeBytes(lst, dir) ==
    IF lst = <<>> THEN <<>>
    ELSE dir[Head(lst)].data \o <<NL>> \o MergeBytes(Tail(lst), dir)

\* ------------------------------------------------------------------ state
VARIABLES
    cfg,            \* args: start, end, max_misses, no_head, extract, merge
    pc,             \* "loop", "after" (the loop was left), "done", or "lib"
    n, misses, downloaded, skipped, failed,
    extracted_all,  \* list of extracted paths (base names under out/pgn)
    zips,           \* the files under out/zips
    pgn,            \* the files under out/pgn
    merge_file,     \* the file at args.merge
    merge_parent,   \* whether args.merge.parent was created by the run
    exit_code,      \* the value main() returned; -1 before it returns
    visited,        \* history: the indices the loop body ran for, in order
    since,          \* history: 404 answers to HEAD since the last saved download
    it,             \* history: what the last iteration of the loop did
    dl              \* the frame of a download() call followed statement by statement

vars == <<cfg, pc, n, misses, downloaded, skipped, failed, extracted_all,
          zips, pgn, merge_file, merge_parent, exit_code, visited, since, it, dl>>

mainVars == <<cfg, pc, n, misses, downloaded, skipped, failed, extracted_all,
              zips, pgn, merge_file, merge_parent, exit_code, visited, since, it>>

Configs ==
    { c \in [start : 1..MaxStart, end : {None} \cup (1..MaxIdx), max_misses : 1..MaxMisses,
             no_head : BOOLEAN, extract : BOOLEAN, merge : BOOLEAN] :
        c.end = None \/ c.start <= c.end }

\* What may lie at out/zips/twic{k}g.zip before the run: nothing, an empty
\* file, the archive, or a file that is not a zip.
LocalKinds == {"absent", "empty", "zip", "corrupt"}
LocalFile(kind, k) ==
    CASE kind = "empty" -> FileOf(<<>>)
      [] kind = "zip" -> FileOf(ArchiveBytes(k))
      [] kind = "corrupt" -> FileOf(CorruptBytes)
      [] OTHER -> NoFile

ItNone ==
    [idx |-> 0, skip |-> FALSE, heads |-> 0, gets |-> 0, probe |-> 0, reprobe |-> 0,
     get |-> "none", logs |-> <<>>, ok |-> FALSE, extract |-> "none"]

\* The state after the argument parsing and the assignments of lines 91-99.
Init ==
    /\ cfg \in Configs
    /\ pc = "loop"
    /\ n = cfg.start
    /\ misses = 0 /\ downloaded = 0 /\ skipped = 0 /\ failed = 0
    /\ extracted_all = <<>>
    /\ \E kinds \in [1..MaxLocal -> LocalKinds] :
         zips = [p \in ZipPaths |->
                   IF ~p[2] /\ p[1] <= MaxLocal
                   THEN LocalFile(kinds[p[1]], p[1]) ELSE NoFile]
    /\ pgn = EmptyDir
    /\ merge_file = NoFile
    /\ merge_parent = FALSE
    /\ exit_code = -1
    /\ visited = <<>>
    /\ since = 0
    /\ it = ItNone
    /\ dl = DlIdle

\* ------------------------------------------------------------ the loop body
\* line 115
ShouldSkip_exists(f) == f.exists
ShouldSkip(f) == f.exists /\ Len(f.data) > 0

\* line 135
ShouldFetch(ok, no_head) == ok \/ no_head

\* line 172
BreakOnMisses_anyMode(end, m, max_misses) == m >= max_misses
BreakOnMisses_strict(end, m, max_misses) == end = None /\ m > max_misses
BreakOnMisses(end, m, max_misses) == end = None /\ m >= max_misses

\* The values the loop body works on, with the history of the iteration.
Ctx(k) ==
    [misses |-> misses, downloaded |-> downloaded, skipped |-> skipped, failed |-> failed,
     zips |-> zips, pgn |-> pgn, extracted_all |-> extracted_all, h |-> [ItNone EXCEPT !.idx = k]]

Log(c, tag) == [c EXCEPT !.h.logs = Append(@, tag)]

\* lines 114-120
PreCheck(c, k) ==
    IF ShouldSkip(c.zips[ZipPath(k)])
    THEN Log([c EXCEPT !.skipped = @ + 1, !.h.ok = TRUE, !.h.skip = TRUE], "SKIP")
    ELSE c

\* lines 122-133, h the answer to the HEAD request
Probe(c, h) ==
    LET r == head_ok(h)
        c1 == Log([c EXCEPT !.h.heads = @ + 1, !.h.probe = r[2]], "HEAD")
    IN  IF ~r[1]
        THEN IF r[2] = 404
             THEN Log([c1 EXCEPT !.misses = @ + 1, !.h.ok = FALSE], "MISS")
             ELSE Log([c1 EXCEPT !.h.ok = FALSE], "WARN")
        ELSE [c1 EXCEPT !.h.ok = TRUE]

\* lines 136-157, g the answer to the GET request, h2 to the second HEAD
Fetch(c, k, g, h2) ==
    LET r  == download(g, ZipPath(k), c.zips)
        c1 == Log([c EXCEPT !.h.gets = @ + 1, !.zips = r.fs], "GET")
    IN  IF ~r.ok
        THEN LET c2 == IF ~cfg.no_head
                       THEN [c1 EXCEPT !.failed = @ + 1, !.h.get = "fail",
                                       !.h.heads = @ + 1, !.h.reprobe = head_ok(h2)[2]]
                       ELSE [c1 EXCEPT !.failed = @ + 1, !.h.get = "fail"]
                 code2 == IF ~cfg.no_head THEN head_ok(h2)[2] ELSE -1
             IN  IF code2 = 404
                 THEN Log([c2 EXCEPT !.misses = @ + 1, !.h.ok = FALSE], "MISS")
                 ELSE Log([c2 EXCEPT !.h.ok = FALSE], "FAIL")
        ELSE Log([c1 EXCEPT !.downloaded = @ + 1, !.misses = 0, !.h.get = "ok",
                            !.h.ok = TRUE], "OK")

\* lines 159-169
Extract(c, k) ==
    LET e == extract_pgn(c.zips[ZipPath(k)], c.pgn) IN
    IF e.bad
    THEN Log([c EXCEPT !.failed = @ + 1, !.h.extract = "bad"], "BAD")
    ELSE Log([c EXCEPT !.pgn = e.dir, !.extracted_all = @ \o e.extracted,
                       !.h.extract = "ran"], "PGN")

\* lines 114-133 for index k: the pre-check and the probe
BeforeFetch(k, h1) ==
    LET c0 == PreCheck(Ctx(k), k)
    IN  IF ~c0.h.skip /\ ~cfg.no_head THEN Probe(c0, h1) ELSE c0

\* lines 105-169 for index k
Iteration(k, h1, g, h2) ==
    LET c1 == BeforeFetch(k, h1)
        c2 == IF ~c1.h.skip /\ ShouldFetch(c1.h.ok, cfg.no_head) THEN Fetch(c1, k, g, h2) ELSE c1
    IN  IF c2.h.ok /\ cfg.extract THEN Extract(c2, k) ELSE c2

\* The answers the server may give for index k.
HeadFor(k) == IF k > MaxIdx THEN GoneHead ELSE HeadResponses
GetFor(k) == IF k > MaxIdx THEN GoneGet ELSE GetResponses(k, LoopErrs(k))

\* The answers an iteration for index k reads: one per request it makes
\* (NoHead, NoGet where it makes none).
NoHead == [raised |-> TRUE, status |-> 0]
NoGet == [raised |-> TRUE, status |-> 0, chunks |-> <<>>, errAt |-> 0]
ProbeAnswers(k) ==
    IF ShouldSkip(zips[ZipPath(k)]) \/ cfg.no_head THEN {NoHead} ELSE HeadFor(k)
GetAnswers(k, h1) ==
    LET c1 == BeforeFetch(k, h1)
    IN  IF ~c1.h.skip /\ ShouldFetch(c1.h.ok, cfg.no_head) THEN GetFor(k) ELSE {NoGet}
ReprobeAnswers(k, h1, g) ==
    IF g \in GetFor(k) /\ ~cfg.no_head /\ ~download(g, ZipPath(k), zips).ok
    THEN HeadFor(k) ELSE {NoHead}

\* The 404 answers to HEAD since the last saved download, after an iteration
\* with history h.
SinceAfter(h) ==
    IF h.get = "ok" THEN 0
    ELSE since + (IF h.probe = 404 THEN 1 ELSE 0) + (IF h.reprobe = 404 THEN 1 ELSE 0)

\* failed is counted up to FailedCap in the iterations past MaxIdx (it is
\* only reported, and at most MaxIdx before them).
FailedCap == MaxIdx + 1
Min(a, b) == IF a < b THEN a ELSE b

\* lines 101-177: one pass of the loop body.  The history visited records
\* the indices up to MaxIdx.
LoopBody ==
    /\ pc = "loop"
    /\ ~(cfg.end # None /\ n > cfg.end)
    /\ \E h1 \in ProbeAnswers(n) : \E g \in GetAnswers(n, h1) : \E h2 \in ReprobeAnswers(n, h1, g) :
         \E c \in {Iteration(n, h1, g, h2)} :
         /\ misses' = c.misses /\ downloaded' = c.downloaded
         /\ skipped' = c.skipped
         /\ failed' = IF n <= MaxIdx THEN c.failed ELSE Min(c.failed, FailedCap)
         /\ zips' = c.zips /\ pgn' = c.pgn /\ extracted_all' = c.extracted_all
         /\ it' = c.h
         /\ since' = SinceAfter(c.h)
         /\ visited' = IF n <= MaxIdx THEN Append(visited, n) ELSE visited
         /\ IF BreakOnMisses(cfg.end, c.misses, cfg.max_misses)
            THEN pc' = "after" /\ n' = n
            ELSE pc' = "loop" /\ n' = Fold(n + 1)
    /\ UNCHANGED <<cfg, merge_file, merge_parent, exit_code, dl>>

\* lines 102-103
LoopExit ==
    /\ pc = "loop"
    /\ cfg.end # None /\ n > cfg.end
    /\ pc' = "after"
    /\ UNCHANGED <<cfg, n, misses, downloaded, skipped, failed, extracted_all,
                   zips, pgn, merge_file, merge_parent, exit_code, visited, since, it, dl>>

\* ------------------------------------------------------- after the loop
\* lines 179-180
UsageError_never(merge, extract) == FALSE
UsageError(merge, extract) == merge /\ ~extract

\* lines 179-196
Finish ==
    /\ pc = "after"
    /\ pc' = "done"
    /\ IF UsageError(cfg.merge, cfg.extract)
       THEN /\ exit_code' = 2
            /\ UNCHANGED <<merge_file, merge_parent, extracted_all>>
       ELSE IF cfg.merge
       THEN \E order \in SetOrders(Range(extracted_all)) :
              /\ extracted_all' = sorted(order)
              /\ merge_parent' = TRUE
              /\ merge_file' = FileOf(MergeBytes(sorted(order), pgn))
              /\ exit_code' = 0
       ELSE /\ exit_code' = 0
            /\ UNCHANGED <<merge_file, merge_parent, extracted_all>>
    /\ UNCHANGED <<cfg, n, misses, downloaded, skipped, failed,
                   zips, pgn, visited, since, it, dl>>

Next == LoopBody \/ LoopExit \/ Finish

Spec == Init /\ [][Next]_vars

\* Runs into an empty output directory, without extraction or merge.
FairInit ==
    /\ Init
    /\ ~cfg.extract /\ ~cfg.merge
    /\ \A p \in ZipPaths : zips[p] = NoFile

\* The program is sequential and every request it makes has a timeout: a
\* step that can be taken is taken.
FairSpec == FairInit /\ [][Next]_vars /\ WF_vars(Next)

\* ------------------------------------------- download(), statement by statement
\* A partial file left at the temporary path by an earlier, interrupted call.
StalePart == FileOf(<<7>>)

\* download() called on its own: any index, any file at the destination and
\* at the temporary path, any response.
DlInit ==
    /\ cfg = [start |-> 1, end |-> None, max_misses |-> 1,
              no_head |-> FALSE, extract |-> FALSE, merge |-> FALSE]
    /\ pc = "lib"
    /\ n = 1
    /\ misses = 0 /\ downloaded = 0 /\ skipped = 0 /\ failed = 0
    /\ extracted_all = <<>>
    /\ zips = [p \in ZipPaths |-> NoFile]
    /\ pgn = EmptyDir
    /\ merge_file = NoFile
    /\ merge_parent = FALSE
    /\ exit_code = -1
    /\ visited = <<>>
    /\ since = 0
    /\ it = ItNone
    /\ \E k \in 1..MaxIdx, kind \in LocalKinds, part \in {NoFile, StalePart} :
         \E resp \in GetResponses(k, AllErrs(k)) :
           dl = DlStart(resp, ZipPath(k),
                        [p \in ZipPaths |->
                           IF p = ZipPath(k) THEN LocalFile(kind, k)
                           ELSE IF p = <<k, TRUE>> THEN part ELSE NoFile])

DlRunning == pc = "lib" /\ dl.pc \notin {"idle", "ret", "killed"}

\* The next statement of download() runs.
DlAdvance ==
    /\ DlRunning
    /\ dl' = DlStep(dl)
    /\ UNCHANGED mainVars

\* The process is terminated from outside.
DlKill ==
    /\ DlRunning
    /\ dl' = [dl EXCEPT !.pc = "killed", !.open = FALSE]
    /\ UNCHANGED mainVars

DlNext == DlAdvance \/ DlKill

SpecDownload == DlInit /\ [][DlNext]_vars

\* ------------------------------------------------------------ properties
Bounded == pc # "lib" /\ cfg.end # None
OpenEnded == pc # "lib" /\ cfg.end = None
LoopLeft == pc \in {"after", "done"}

\* A pass of the loop body for an index up to MaxIdx.
IterStep == visited' # visited

\* s is a, a+1, a+2, ...
IsRun(s, a) == \A i \in 1..Len(s) : s[i] = a + i - 1

RangeSize == cfg.end - cfg.start + 1

\* C1: with an end index the loop body runs for start, start+1, ..., end,
\* each once and in this order, whatever the outcomes and however large the
\* miss counter grows: the indices visited so far are always the run from
\* start up to the index before n, never beyond end; the loop is left only
\* when all of them were visited; and once n is past end the next step
\* leaves the loop without another visit.
C1_BoundedVisitsWholeRange ==
    /\ [](Bounded =>
            /\ IsRun(visited, cfg.start)
            /\ Len(visited) <= RangeSize
            /\ (pc = "loop" => n = cfg.start + Len(visited))
            /\ (LoopLeft => Len(visited) = RangeSize))
    /\ [][(Bounded /\ pc = "loop" /\ n > cfg.end) => (pc' = "after" /\ visited' = visited)]_vars

\* A bounded run that went on after the miss counter had passed the threshold.
C1_Witness ==
    /\ Bounded /\ pc = "done"
    /\ Len(visited) = RangeSize /\ RangeSize >= 2
    /\ misses > cfg.max_misses

\* C2: without an end index the miss counter always equals the number of
\* 404 answers to HEAD requests (the probe, or the probe again after a
\* failed GET) since the last saved download; the loop goes on while it is
\* below the threshold and is left at the first index where it reaches the
\* threshold, which is the index of the last iteration.
C2_OpenEndedStopsAtThreshold ==
    OpenEnded =>
        /\ misses = since
        /\ (pc = "loop" => misses < cfg.max_misses)
        /\ (LoopLeft => /\ misses = cfg.max_misses
                        /\ it.idx = n
                        /\ IsRun(visited, cfg.start)
                        /\ (n <= MaxIdx => visited # <<>> /\ visited[Len(visited)] = n))

\* An open-ended run that saved a download and later stopped on two misses.
C2_Witness ==
    /\ OpenEnded /\ pc = "done" /\ exit_code = 0
    /\ downloaded >= 1 /\ cfg.max_misses = 2 /\ Len(visited) = 3

\* C3: without an end index, when the server holds nothing from some index
\* on (every HEAD and GET answers 404; here: past MaxIdx) and no archive of
\* those indices is on disk, the run leaves the loop and returns 0, with and
\* without --no-head.  (Stated for the runs that do not ask for a merge
\* without extraction, which return 2.)
C3_OpenEndedTerminates ==
    (pc = "loop" /\ cfg.end = None /\ (cfg.merge => cfg.extract))
    ~> (pc = "done" /\ exit_code = 0)

\* The same with the probe enabled.
ProbedRunsTerminate ==
    (pc = "loop" /\ cfg.end = None /\ ~cfg.no_head /\ (cfg.merge => cfg.extract))
    ~> (pc = "done" /\ exit_code = 0)

RECURSIVE Flatten(_)
Flatten(chunks) == IF chunks = <<>> THEN <<>> ELSE Head(chunks) \o Flatten(Tail(chunks))

\* C4: at every point of a download() call, killed or not, the destination
\* is as the call found it or holds the whole response body; it differs from
\* what the call found only after a 200 response, all chunks consumed and f
\* closed; no path other than the destination and its ".part" is touched, so
\* partial content lies at the ".part" path only.
C4_AtomicPublish ==
    dl.pc # "idle" =>
        LET dest == dl.fs[dl.dest] IN
        /\ dest = dl.dest0 \/ dest = FileOf(Flatten(dl.resp.chunks))
        /\ dest # dl.dest0 =>
              /\ ~dl.resp.raised /\ dl.resp.status = 200 /\ dl.resp.errAt = 0
              /\ dl.i = Len(dl.resp.chunks) /\ ~dl.open
              /\ dl.pc \in {"ret", "killed"}
        /\ (dl.pc = "ret" /\ ~dl.ok) => dest = dl.dest0
        /\ (dl.pc = "ret" /\ dl.ok) => dest = FileOf(Flatten(dl.resp.chunks))
        /\ \A p \in ZipPaths : p[1] # dl.dest[1] => dl.fs[p] = NoFile

\* A call killed while part of the body was written: the partial content is
\* at the ".part" path, and a file that was at the destination is still there.
C4_Witness ==
    /\ dl.pc = "killed" /\ dl.i > 0 /\ dl.i < Len(dl.resp.chunks)
    /\ dl.fs[<<dl.dest[1], TRUE>>].exists
    /\ Len(dl.fs[<<dl.dest[1], TRUE>>].data) > 0
    /\ dl.dest0.exists /\ dl.fs[dl.dest] = dl.dest0

\* C5: an iteration for an index whose archive exists with size > 0 makes
\* no HEAD and no GET request, adds one to skipped, leaves downloaded and
\* all files under out/zips as they were, and counts as a success, so that
\* extraction runs for it when enabled; an archive of size 0 is not skipped:
\* the iteration leaves skipped alone and makes the requests of an
\* iteration for an absent archive.
C5_IdempotentSkip ==
    [][IterStep =>
        LET f == zips[ZipPath(n)] IN
        /\ (f.exists /\ Len(f.data) > 0) =>
              /\ it'.skip /\ it'.heads = 0 /\ it'.gets = 0
              /\ skipped' = skipped + 1
              /\ downloaded' = downloaded
              /\ zips' = zips
              /\ it'.ok
              /\ (cfg.extract => it'.extract # "none")
        /\ (f.exists /\ Len(f.data) = 0) =>
              /\ ~it'.skip /\ skipped' = skipped
              /\ (cfg.no_head => it'.heads = 0 /\ it'.gets = 1)
              /\ (~cfg.no_head => it'.heads >= 1 /\ it'.probe # 0)
              /\ (it'.probe = 200 => it'.gets = 1)]_vars

\* An existing archive was skipped and extracted from.
C5_Witness ==
    /\ pc \in {"loop", "after"} /\ it.skip /\ it.extract = "ran"
    /\ skipped >= 1 /\ it.heads = 0 /\ it.gets = 0
    /\ extracted_all # <<>>

\* C6: a run with a merge destination and without extraction returns 2 and
\* never creates the merge file or its parent directory; nothing is returned
\* or merged before the loop is left, and a bounded run has then visited
\* its whole range; every other run that leaves the loop returns 0.
C6_UsageError ==
    pc # "lib" =>
        /\ (pc = "done" => exit_code = IF cfg.merge /\ ~cfg.extract THEN 2 ELSE 0)
        /\ (pc # "done" => exit_code = -1 /\ merge_file = NoFile /\ ~merge_parent)
        /\ ((cfg.merge /\ ~cfg.extract) => merge_file = NoFile /\ ~merge_parent)
        /\ ((pc = "done" /\ cfg.end # None) => Len(visited) = RangeSize)

\* A run that downloaded an archive and then returned 2.
C6_Witness ==
    /\ pc = "done" /\ exit_code = 2 /\ cfg.merge /\ ~cfg.extract
    /\ downloaded >= 1 /\ merge_file = NoFile

\* The orders of the set S that are ascending in the lower-cased name.
KeyOrders(S) ==
    { s \in SetOrders(S) :
        \A i, j \in 1..Len(s) : i < j => ~str_lt(lower(s[j]), lower(s[i])) }

\* C7: after a run with merge and extraction the merge file holds, for the
\* set of distinct extracted paths, each file's bytes followed by one
\* newline, in case-insensitive order of the base names; the content is
\* determined by the set of paths, so it is the concatenation along every
\* order of the set that is ascending in the lower-cased name.
C7_MergeIsDetermined ==
    (pc = "done" /\ cfg.merge /\ cfg.extract) =>
        /\ merge_file.exists
        /\ \A lst \in KeyOrders(Range(extracted_all)) :
              merge_file.data = MergeBytes(lst, pgn)

\* C8: with the probe enabled, a probe that is neither 200 nor 404 (another
\* status, or a transport error) is followed in the same iteration by a
\* warning and by the GET; a 404 probe is followed by no GET.
C8_OptimisticFallback ==
    (pc # "lib" /\ it.idx # 0 /\ ~cfg.no_head /\ ~it.skip) =>
        /\ (it.probe \notin {200, 404} =>
              /\ \E i \in 1..Len(it.logs) : it.logs[i] = "WARN"
              /\ it.gets = 1)
        /\ (it.probe = 404 => it.gets = 0)

\* C9: after every failed GET, in every configuration, the resource is
\* probed once more; misses grows by one exactly when that probe answers
\* 404 and otherwise the failure is logged and misses is unchanged; failed
\* grows by one, the destination is as before, no extraction runs, and
\* misses grows by at most one in the iteration.
C9_FailedFetchIsReprobed ==
    [][(IterStep /\ it'.get = "fail") =>
        /\ it'.reprobe # 0
        /\ it'.heads = (IF cfg.no_head THEN 1 ELSE 2)
        /\ (misses' = misses + 1 <=> it'.reprobe = 404)
        /\ (it'.reprobe # 404 =>
              /\ misses' = misses
              /\ \E i \in 1..Len(it'.logs) : it'.logs[i] = "FAIL")
        /\ failed' = failed + 1
        /\ zips'[ZipPath(n)] = zips[ZipPath(n)]
        /\ it'.extract = "none"
        /\ misses' <= misses + 1]_vars

\* C10: every iteration whose fetch step reports success, a skipped index
\* included, leaves the miss counter at zero.
C10_EverySuccessResets ==
    [][(IterStep /\ it'.ok) => misses' = 0]_vars

====
